---------------------------- MODULE Spec2Model ----------------------------
(***************************************************************************)
(* Model of lifeline-connect-backend: the location index built by          *)
(* zip_utils.py and the two request handlers of main.py (get_resources,    *)
(* ask) over the resource table loaded at startup.                         *)
(*                                                                         *)
(* Text is modelled as a sequence of one-character strings so that         *)
(* lower(), strip(), title(), substring tests and the ZIP regular          *)
(* expression are computed character by character as Python does.          *)
(* A DataFrame derived from df is modelled by its index: the ascending     *)
(* sequence of row positions of df that it retains; frame[mask] is         *)
(* SelectSeq over that index.                                              *)
(***************************************************************************)
EXTENDS Naturals, Sequences, FiniteSets

VARIABLES
    city_to_zips,     \* zip_utils.city_to_zips: insertion-ordered dict, a sequence of <<city, zips>>
    zip_to_city_map,  \* zip_utils.zip_to_city_map: function from ZIP to city
    ci, zi,           \* position of the nested loop that builds zip_to_city_map
    df,               \* main.df: the resource table, a sequence of rows
    pc,               \* "build", "load", "idle" (waiting for a request), "responded"
    req,              \* the request being served
    resp,             \* the handler's return value
    locals,           \* the values of ask's local variables when it returned
    df0, c2z0, z2c0,  \* history: table and index as they were when startup finished
    served            \* history: TRUE once a request has been answered

vars ==
    <<city_to_zips, zip_to_city_map, ci, zi, df, pc, req, resp, locals, df0, c2z0, z2c0, served>>

-----------------------------------------------------------------------------
(* Python values *)

None == <<"<None>">>
PyTrue == <<"<True>">>
PyFalse == <<"<False>">>

Truthy(x) == x # None /\ x # <<>>

UpperLetters == <<"A", "B", "C", "D", "E", "F", "G", "H", "I", "J", "K", "L", "M", "N", "O", "P", "Q", "R", "S", "T", "U", "V", "W", "X", "Y", "Z">>
LowerLetters == <<"a", "b", "c", "d", "e", "f", "g", "h", "i", "j", "k", "l", "m", "n", "o", "p", "q", "r", "s", "t", "u", "v", "w", "x", "y", "z">>
Digits == {"0", "1", "2", "3", "4", "5", "6", "7", "8", "9"}
UpperSet == {UpperLetters[k] : k \in 1..26}
LowerSet == {LowerLetters[k] : k \in 1..26}
WordChars == UpperSet \cup LowerSet \cup Digits \cup {"_"}
Whitespace == {" ", "\t", "\n", "\r", "\f"}

LowerChar(c) ==
    IF c \in UpperSet
    THEN LowerLetters[CHOOSE k \in 1..26 : UpperLetters[k] = c]
    ELSE c

UpperChar(c) ==
    IF c \in LowerSet
    THEN UpperLetters[CHOOSE k \in 1..26 : LowerLetters[k] = c]
    ELSE c

\* str.lower()
Lower(s) == [k \in 1..Len(s) |-> LowerChar(s[k])]

\* str.title(): a letter is upper-cased when it follows a non-letter, lower-cased otherwise
Title(s) ==
    [k \in 1..Len(s) |->
        IF k = 1 \/ s[k-1] \notin (UpperSet \cup LowerSet)
        THEN UpperChar(s[k])
        ELSE LowerChar(s[k])]

\* str.strip()
RECURSIVE LStrip(_)
LStrip(s) == IF s # <<>> /\ Head(s) \in Whitespace THEN LStrip(Tail(s)) ELSE s

RECURSIVE RStrip(_)
RStrip(s) ==
    IF s # <<>> /\ s[Len(s)] \in Whitespace
    THEN RStrip(SubSeq(s, 1, Len(s) - 1))
    ELSE s

Strip(s) == RStrip(LStrip(s))

\* Python's `p in s` for strings
Contains(s, p) ==
    \E k \in 0..(Len(s) - Len(p)) : SubSeq(s, k + 1, k + Len(p)) = p

\* any(w in q for w in words)
AnyIn(words, q) == \E k \in 1..Len(words) : Contains(q, words[k])

\* Series.str.contains(pat, case=False) for a pattern that is an alternation of literals
StrContains(field, alternatives) ==
    \E p \in alternatives : Contains(Lower(field), p)

\* str(bool).lower()
BoolText(b) == IF b = PyTrue THEN Lower(<<"T", "r", "u", "e">>) ELSE Lower(<<"F", "a", "l", "s", "e">>)

-----------------------------------------------------------------------------
(* zip_utils.py *)

Tulsa == <<"t", "u", "l", "s", "a">>
Norman == <<"n", "o", "r", "m", "a", "n">>
OklahomaCity == <<"o", "k", "l", "a", "h", "o", "m", "a", " ", "c", "i", "t", "y">>

\* the dict literal city_to_zips
StaticConfig ==
    << <<Tulsa, <<<<"7", "4", "1", "2", "7">>, <<"7", "4", "1", "3", "6">>, <<"7", "4", "1", "2", "0">>, <<"7", "4", "1", "0", "4">>, <<"7", "4", "1", "0", "6">>, <<"7", "4", "1", "1", "4">>>> >>,
       <<Norman, <<<<"7", "3", "0", "6", "9">>, <<"7", "3", "0", "7", "1">>, <<"7", "3", "0", "7", "2">>>> >>,
       <<OklahomaCity, <<<<"7", "3", "1", "0", "2">>, <<"7", "3", "1", "0", "3">>, <<"7", "3", "1", "0", "6">>, <<"7", "3", "1", "0", "7">>, <<"7", "3", "1", "0", "9">>,
                         <<"7", "3", "1", "1", "2">>, <<"7", "3", "1", "1", "4">>, <<"7", "3", "1", "2", "0">>>> >> >>

\* list(d.keys()) of an insertion-ordered dict
Keys(d) == [k \in 1..Len(d) |-> d[k][1]]

\* d.get(key, default) on the insertion-ordered dict
DictGet(d, key, default) ==
    IF \E k \in 1..Len(d) : d[k][1] = key
    THEN d[CHOOSE k \in 1..Len(d) : d[k][1] = key][2]
    ELSE default

\* m.get(key): None when absent
MapGet(m, key) == IF key \in DOMAIN m THEN m[key] ELSE None

Elems(list) == {list[k] : k \in 1..Len(list)}

EmptyMap == [z \in {} |-> None]

SetItemSwapped(m, zip_code, city) ==
    [z \in (DOMAIN m) \cup {city} |-> IF z = city THEN zip_code ELSE m[z]]

\* zip_to_city_map[zip_code] = city
SetItem(m, zip_code, city) ==
    [z \in (DOMAIN m) \cup {zip_code} |-> IF z = zip_code THEN city ELSE m[z]]

-----------------------------------------------------------------------------
(* main.py: the table *)

\* df.copy(): a frame over every row of the table
Copy(table) == [k \in 1..Len(table) |-> k]

\* frame.to_dict(orient="records")
ToDict(table, frame) == [k \in 1..Len(frame) |-> table[frame[k]]]

\* frame.head(n)
HeadN(frame, n) == SubSeq(frame, 1, IF Len(frame) < n THEN Len(frame) ELSE n)

get_resources_frame_zip_first(table, c2z, z2c, city, zip, is_virtual) ==
    LET results == Copy(table)
        byLocation ==
            IF Truthy(zip)
            THEN LET matched_city == MapGet(z2c, zip)
                 IN  IF Truthy(matched_city)
                     THEN LET related_zips == DictGet(c2z, matched_city, <<>>)
                          IN  SelectSeq(results,
                                     LAMBDA r : \/ table[r].zip \in Elems(related_zips)
                                                \/ Lower(table[r].city) = matched_city)
                     ELSE SelectSeq(results, LAMBDA r : table[r].zip = zip)
            ELSE IF Truthy(city)
            THEN SelectSeq(results, LAMBDA r : Lower(table[r].city) = Lower(city))
            ELSE results
        byVirtual ==
            IF is_virtual # None
            THEN SelectSeq(byLocation,
                        LAMBDA r : Lower(table[r].isvirtual) = BoolText(is_virtual))
            ELSE byLocation
    IN  byVirtual

get_resources_frame_zips_only(table, c2z, z2c, city, zip, is_virtual) ==
    LET results == Copy(table)
        byLocation ==
            IF Truthy(city)
            THEN SelectSeq(results, LAMBDA r : Lower(table[r].city) = Lower(city))
            ELSE IF Truthy(zip)
            THEN LET matched_city == MapGet(z2c, zip)
                 IN  IF Truthy(matched_city)
                     THEN LET related_zips == DictGet(c2z, matched_city, <<>>)
                          IN  SelectSeq(results,
                                     LAMBDA r : table[r].zip \in Elems(related_zips))
                     ELSE SelectSeq(results, LAMBDA r : table[r].zip = zip)
            ELSE results
        byVirtual ==
            IF is_virtual # None
            THEN SelectSeq(byLocation,
                        LAMBDA r : Lower(table[r].isvirtual) = BoolText(is_virtual))
            ELSE byLocation
    IN  byVirtual

\* the body of get_resources up to its return: the frame it narrows `results` to
get_resources_frame(table, c2z, z2c, city, zip, is_virtual) ==
    LET results == Copy(table)
        byLocation ==
            IF Truthy(city)
            THEN SelectSeq(results, LAMBDA r : Lower(table[r].city) = Lower(city))
            ELSE IF Truthy(zip)
            THEN LET matched_city == MapGet(z2c, zip)
                 IN  IF Truthy(matched_city)
                     THEN LET related_zips == DictGet(c2z, matched_city, <<>>)
                          IN  SelectSeq(results,
                                     LAMBDA r : \/ table[r].zip \in Elems(related_zips)
                                                \/ Lower(table[r].city) = matched_city)
                     ELSE SelectSeq(results, LAMBDA r : table[r].zip = zip)
            ELSE results
        byVirtual ==
            IF is_virtual # None
            THEN SelectSeq(byLocation,
                        LAMBDA r : Lower(table[r].isvirtual) = BoolText(is_virtual))
            ELSE byLocation
    IN  byVirtual

get_resources(table, c2z, z2c, city, zip, is_virtual) ==
    ToDict(table, get_resources_frame(table, c2z, z2c, city, zip, is_virtual))

-----------------------------------------------------------------------------
(* main.py: helpers of the /ask route *)

\* ZIP_REGEX = \b\d{5}\b matches at position k of q
ZipMatchAt(q, k) ==
    /\ k + 4 <= Len(q)
    /\ \A d \in 0..4 : q[k + d] \in Digits
    /\ (k = 1 \/ q[k - 1] \notin WordChars)
    /\ (k + 4 = Len(q) \/ q[k + 5] \notin WordChars)

\* ZIP_REGEX.search(q): start of the leftmost match at or after k, 0 when there is none
RECURSIVE ZipSearch(_, _)
ZipSearch(q, k) ==
    IF k + 4 > Len(q) THEN 0
    ELSE IF ZipMatchAt(q, k) THEN k
    ELSE ZipSearch(q, k + 1)

\* for c in city_to_zips.keys(): if c in q: return c, None
RECURSIVE CityScan(_, _)
CityScan(keys, q) ==
    IF keys = <<>> THEN <<None, None>>
    ELSE IF Contains(q, Head(keys)) THEN <<Head(keys), None>>
    ELSE CityScan(Tail(keys), q)

extract_location_city_first(c2z, z2c, query) ==
    LET q == Lower(query)
        m == ZipSearch(q, 1)
        byName == CityScan(Keys(c2z), q)
    IN  IF byName[1] # None THEN byName
        ELSE IF m # 0
        THEN LET z == SubSeq(q, m, m + 4)
             IN  IF z \in DOMAIN z2c THEN <<z2c[z], z>> ELSE <<None, z>>
        ELSE <<None, None>>

extract_location(c2z, z2c, query) ==
    LET q == Lower(query)
        m == ZipSearch(q, 1)
    IN  IF m # 0
        THEN LET z == SubSeq(q, m, m + 4)
             IN  IF z \in DOMAIN z2c THEN <<z2c[z], z>> ELSE <<None, z>>
        ELSE CityScan(Keys(c2z), q)

FOOD_WORDS == <<<<"f", "o", "o", "d">>, <<"m", "e", "a", "l">>, <<"p", "a", "n", "t", "r", "y">>, <<"h", "u", "n", "g", "e", "r">>, <<"g", "r", "o", "c", "e", "r", "i", "e", "s">>, <<"e", "a", "t">>>>
HOUSING_WORDS == <<<<"h", "o", "u", "s", "i", "n", "g">>, <<"s", "h", "e", "l", "t", "e", "r">>, <<"r", "e", "n", "t">>, <<"h", "o", "m", "e", "l", "e", "s", "s">>>>
UTIL_WORDS == <<<<"u", "t", "i", "l", "i", "t", "y">>, <<"u", "t", "i", "l", "i", "t", "i", "e", "s">>, <<"e", "l", "e", "c", "t", "r", "i", "c">>, <<"w", "a", "t", "e", "r">>, <<"g", "a", "s">>, <<"b", "i", "l", "l">>>>
MENTAL_HEALTH_WORDS == <<<<"m", "e", "n", "t", "a", "l">>, <<"t", "h", "e", "r", "a", "p", "y">>, <<"c", "o", "u", "n", "s", "e", "l">>, <<"c", "o", "u", "n", "s", "e", "l", "i", "n", "g">>, <<"t", "h", "e", "r", "a", "p", "i", "s", "t">>>>

\* the mask each branch of filter_by_topic builds
FoodMask(row) ==
    \/ StrContains(row.category, {<<"f", "o", "o", "d">>})
    \/ StrContains(row.description, {<<"f", "o", "o", "d">>, <<"m", "e", "a", "l">>, <<"p", "a", "n", "t", "r", "y">>})
HousingMask(row) ==
    \/ StrContains(row.category, {<<"h", "o", "u", "s", "i", "n", "g">>, <<"s", "h", "e", "l", "t", "e", "r">>})
    \/ StrContains(row.description, {<<"h", "o", "u", "s", "i", "n", "g">>, <<"s", "h", "e", "l", "t", "e", "r">>, <<"r", "e", "n", "t">>})
UtilMask(row) ==
    \/ StrContains(row.category, {<<"u", "t", "i", "l", "i", "t", "i", "e", "s">>})
    \/ StrContains(row.description, {<<"u", "t", "i", "l", "i", "t", "y">>, <<"b", "i", "l", "l">>})
MentalMask(row) ==
    \/ StrContains(row.category, {<<"m", "e", "n", "t", "a", "l">>})
    \/ StrContains(row.description, {<<"m", "e", "n", "t", "a", "l">>, <<"t", "h", "e", "r", "a", "p", "y">>, <<"c", "o", "u", "n", "s", "e", "l">>})

filter_by_topic(table, df_in, query) ==
    LET q == Lower(query)
    IN  IF AnyIn(FOOD_WORDS, q) THEN SelectSeq(df_in, LAMBDA r : FoodMask(table[r]))
        ELSE IF AnyIn(HOUSING_WORDS, q) THEN SelectSeq(df_in, LAMBDA r : HousingMask(table[r]))
        ELSE IF AnyIn(UTIL_WORDS, q) THEN SelectSeq(df_in, LAMBDA r : UtilMask(table[r]))
        ELSE IF AnyIn(MENTAL_HEALTH_WORDS, q) THEN SelectSeq(df_in, LAMBDA r : MentalMask(table[r]))
        ELSE df_in

-----------------------------------------------------------------------------
(* main.py: the /ask endpoint *)

ResultLimit == 10

EnterAQuestion == <<"P", "l", "e", "a", "s", "e", " ", "e", "n", "t", "e", "r", " ", "a", " ", "q", "u", "e", "s", "t", "i", "o", "n", ".">>

narrow_by_location_city_only(table, c2z, z2c, city, z) ==
    LET filtered == Copy(table)
    IN  IF Truthy(city)
        THEN SelectSeq(filtered, LAMBDA r : Lower(table[r].city) = city)
        ELSE IF Truthy(z)
        THEN LET matched_city == MapGet(z2c, z)
             IN  IF Truthy(matched_city)
                 THEN LET related_zips == DictGet(c2z, matched_city, <<>>)
                      IN  SelectSeq(filtered,
                                 LAMBDA r : \/ table[r].zip \in Elems(related_zips)
                                            \/ Lower(table[r].city) = matched_city)
                 ELSE SelectSeq(filtered, LAMBDA r : table[r].zip = z)
        ELSE filtered

\* "Narrow by location if we got one"
narrow_by_location(table, c2z, z2c, city, z) ==
    LET filtered == Copy(table)
    IN  IF Truthy(city)
        THEN LET related_zips == DictGet(c2z, city, <<>>)
             IN  SelectSeq(filtered,
                        LAMBDA r : \/ Lower(table[r].city) = city
                                   \/ table[r].zip \in Elems(related_zips))
        ELSE IF Truthy(z)
        THEN LET matched_city == MapGet(z2c, z)
             IN  IF Truthy(matched_city)
                 THEN LET related_zips == DictGet(c2z, matched_city, <<>>)
                      IN  SelectSeq(filtered,
                                 LAMBDA r : \/ table[r].zip \in Elems(related_zips)
                                            \/ Lower(table[r].city) = matched_city)
                 ELSE SelectSeq(filtered, LAMBDA r : table[r].zip = z)
        ELSE filtered

fallback_none(table, filtered) == filtered

\* if filtered.empty: filtered = df.copy()
fallback(table, filtered) == IF filtered = <<>> THEN Copy(table) ELSE filtered

loc_text(city, z) ==
    IF Truthy(city) THEN Title(city)
    ELSE IF Truthy(z) THEN z
    ELSE <<"y", "o", "u", "r", " ", "a", "r", "e", "a">>

topic_word_housing_first(query) ==
    LET ql == Lower(query)
    IN  IF AnyIn(HOUSING_WORDS, ql) THEN <<"h", "o", "u", "s", "i", "n", "g", " ">>
        ELSE IF AnyIn(FOOD_WORDS, ql) THEN <<"f", "o", "o", "d", " ">>
        ELSE IF AnyIn(UTIL_WORDS, ql) THEN <<"u", "t", "i", "l", "i", "t", "y", " ">>
        ELSE IF AnyIn(MENTAL_HEALTH_WORDS, ql) THEN <<"m", "e", "n", "t", "a", "l", " ", "h", "e", "a", "l", "t", "h", " ">>
        ELSE <<>>

topic_word(query) ==
    LET ql == Lower(query)
    IN  IF AnyIn(FOOD_WORDS, ql) THEN <<"f", "o", "o", "d", " ">>
        ELSE IF AnyIn(HOUSING_WORDS, ql) THEN <<"h", "o", "u", "s", "i", "n", "g", " ">>
        ELSE IF AnyIn(UTIL_WORDS, ql) THEN <<"u", "t", "i", "l", "i", "t", "y", " ">>
        ELSE IF AnyIn(MENTAL_HEALTH_WORDS, ql) THEN <<"m", "e", "n", "t", "a", "l", " ", "h", "e", "a", "l", "t", "h", " ">>
        ELSE <<>>

\* f"Here are some {topic_word}resources near {loc_text}:"
text_intro(topic, loc) ==
    <<"H", "e", "r", "e", " ", "a", "r", "e", " ", "s", "o", "m", "e", " ">> \o topic \o <<"r", "e", "s", "o", "u", "r", "c", "e", "s", " ", "n", "e", "a", "r", " ">> \o loc \o <<":">>

NoLocals ==
    [ran |-> FALSE, query |-> None, city |-> None, z |-> None,
     located |-> <<>>, topical |-> <<>>, filtered |-> <<>>]

strip_query_skipped(raw) == raw

\* payload.query.strip()
strip_query(raw) == Strip(raw)

\* the local variables of ask when it returns; ran is FALSE on the early return
ask_locals(table, c2z, z2c, raw) ==
    LET query == strip_query(raw)
    IN  IF query = <<>> THEN [NoLocals EXCEPT !.query = query]
        ELSE LET loc == extract_location(c2z, z2c, query)
                 located == narrow_by_location(table, c2z, z2c, loc[1], loc[2])
                 topical == filter_by_topic(table, located, query)
             IN  [ran |-> TRUE, query |-> query, city |-> loc[1], z |-> loc[2],
                  located |-> located, topical |-> topical,
                  filtered |-> HeadN(fallback(table, topical), ResultLimit)]

ask(table, c2z, z2c, raw) ==
    LET L == ask_locals(table, c2z, z2c, raw)
    IN  IF ~L.ran
        THEN [response |-> EnterAQuestion, resources |-> <<>>]
        ELSE [response |-> text_intro(topic_word(L.query), loc_text(L.city, L.z)),
              resources |-> ToDict(table, L.filtered)]

global_df_after_in_place(table, frame) == ToDict(table, frame)

\* the module-level df after a handler ran: both handlers narrow a copy
\* (results = df.copy(), filtered = df.copy()) and never rebind or mutate df
global_df_after(table, frame) == table

-----------------------------------------------------------------------------
(* Inputs *)

MaxHead == 1     \* rows of a table that are chosen freely
PadRows == 10    \* copies of one row appended to make a table longer than the result limit
MaxZips == 2     \* ZIPs per city in the configurations of SpecCfg

Row(name, city, zip, category, description, isvirtual) ==
    [name |-> name, city |-> city, zip |-> zip, category |-> category,
     description |-> description, isvirtual |-> isvirtual]

RowPool ==
    { Row(<<"a">>, <<"T", "u", "l", "s", "a">>, <<"7", "4", "1", "3", "6">>, <<"F", "o", "o", "d">>, <<"p", "a", "n", "t", "r", "y">>, <<"f", "a", "l", "s", "e">>),
      Row(<<"b">>, <<"J", "e", "n", "k", "s">>, <<"7", "4", "1", "0", "4">>, <<"H", "o", "u", "s", "i", "n", "g">>, <<>>, <<"T", "r", "u", "e">>),
      Row(<<"c">>, <<"T", "U", "L", "S", "A">>, <<>>, <<>>, <<"R", "e", "n", "t", " ", "h", "e", "l", "p">>, <<>>),
      Row(<<"d">>, <<"n", "o", "r", "m", "a", "n">>, <<"7", "3", "0", "6", "9">>, <<"U", "t", "i", "l", "i", "t", "i", "e", "s">>, <<"b", "i", "l", "l", " ", "a", "i", "d">>, <<"t", "r", "u", "e">>),
      Row(<<"e">>, <<>>, <<"9", "9", "9", "9", "9">>, <<"M", "e", "n", "t", "a", "l", " ", "H", "e", "a", "l", "t", "h">>, <<>>, <<"F", "A", "L", "S", "E">>),
      Row(<<"f">>, <<"A", "d", "a">>, <<"7", "4", "8", "2", "0">>, <<"L", "e", "g", "a", "l">>, <<>>, <<>>) }

SeqsUpTo(S, n) == UNION {[1..k -> S] : k \in 0..n}

Pads == {<<>>} \cup {[k \in 1..PadRows |-> r] : r \in RowPool}

Tables == {head \o pad : head \in SeqsUpTo(RowPool, MaxHead), pad \in Pads}

CityArgs == {None, <<>>, <<"T", "u", "l", "s", "a">>, <<"t", "u", "l", "s", "a">>, <<"T", "U", "L", "S", "A">>, <<"n", "o", "r", "m", "a", "n">>, <<"a", "d", "a">>}
ZipArgs == {None, <<>>, <<"7", "4", "1", "3", "6">>, <<"7", "4", "1", "0", "4">>, <<"7", "3", "0", "6", "9">>, <<"9", "9", "9", "9", "9">>}
VirtualArgs == {None, PyTrue, PyFalse}

Words ==
    {<<>>, <<"f", "o", "o", "d">>, <<"R", "e", "n", "t">>, <<"b", "i", "l", "l">>, <<"m", "e", "n", "t", "a", "l">>, <<"T", "u", "l", "s", "a">>, <<"n", "o", "r", "m", "a", "n">>, <<"o", "k", "l", "a", "h", "o", "m", "a", " ", "c", "i", "t", "y">>,
     <<"7", "4", "1", "3", "6">>, <<"9", "9", "9", "9", "9">>, <<"x">>}
Separators == {<<>>, <<" ">>}

Queries == {a \o sep \o b : a \in Words, sep \in Separators, b \in Words}

\* configurations of the city -> ZIP table other than the shipped one
CfgZips == {<<"7", "4", "1", "3", "6">>, <<"7", "3", "0", "6", "9">>}
Configs ==
    {<< <<Tulsa, a>>, <<Norman, b>> >> : a \in SeqsUpTo(CfgZips, MaxZips),
                                        b \in SeqsUpTo(CfgZips, MaxZips)}
CfgTables == {t \in Tables : Len(t) <= 1}
CfgQueries == {<<"f", "o", "o", "d", " ", "7", "4", "1", "3", "6">>, <<"n", "o", "r", "m", "a", "n">>, <<"7", "3", "0", "6", "9">>, <<>>}

-----------------------------------------------------------------------------
(* State machine *)

NoReq == [op |-> "none", city |-> None, zip |-> None, is_virtual |-> None, query |-> None]
NoResp == [response |-> None, resources |-> <<>>]

InitWith(config) ==
    /\ city_to_zips = config
    /\ zip_to_city_map = EmptyMap
    /\ ci = 1
    /\ zi = 1
    /\ df = <<>>
    /\ pc = "build"
    /\ req = NoReq
    /\ resp = NoResp
    /\ locals = NoLocals
    /\ df0 = <<>>
    /\ c2z0 = <<>>
    /\ z2c0 = EmptyMap
    /\ served = FALSE

Init == InitWith(StaticConfig)

InitCfg == \E config \in Configs : InitWith(config)

\* one iteration of the inner loop of zip_utils.py
BuildStep ==
    /\ pc = "build"
    /\ ci <= Len(city_to_zips)
    /\ zi <= Len(city_to_zips[ci][2])
    /\ zip_to_city_map' =
           SetItem(zip_to_city_map, city_to_zips[ci][2][zi], city_to_zips[ci][1])
    /\ zi' = zi + 1
    /\ UNCHANGED <<city_to_zips, ci, df, pc, req, resp, locals, df0, c2z0, z2c0, served>>

\* the inner loop is exhausted: the outer loop moves to the next city
NextCity ==
    /\ pc = "build"
    /\ ci <= Len(city_to_zips)
    /\ zi > Len(city_to_zips[ci][2])
    /\ ci' = ci + 1
    /\ zi' = 1
    /\ UNCHANGED <<city_to_zips, zip_to_city_map, df, pc, req, resp, locals, df0, c2z0, z2c0, served>>

\* the outer loop is exhausted: the import of zip_utils completes
BuildDone ==
    /\ pc = "build"
    /\ ci > Len(city_to_zips)
    /\ pc' = "load"
    /\ UNCHANGED <<city_to_zips, zip_to_city_map, ci, zi, df, req, resp, locals,
                   df0, c2z0, z2c0, served>>

\* df = pd.read_csv(...) and its normalisation; the application starts serving
LoadData(table) ==
    /\ pc = "load"
    /\ df' = table
    /\ pc' = "idle"
    /\ df0' = table
    /\ c2z0' = city_to_zips
    /\ z2c0' = zip_to_city_map
    /\ UNCHANGED <<city_to_zips, zip_to_city_map, ci, zi, req, resp, locals, served>>

GetResources(city, zip, is_virtual) ==
    /\ pc = "idle"
    /\ req' = [op |-> "get_resources", city |-> city, zip |-> zip,
               is_virtual |-> is_virtual, query |-> None]
    /\ resp' = [response |-> None,
                resources |-> get_resources(df, city_to_zips, zip_to_city_map,
                                            city, zip, is_virtual)]
    /\ locals' = NoLocals
    /\ df' = global_df_after(df, get_resources_frame(df, city_to_zips, zip_to_city_map,
                                                     city, zip, is_virtual))
    /\ pc' = "responded"
    /\ UNCHANGED <<city_to_zips, zip_to_city_map, ci, zi, df0, c2z0, z2c0, served>>

Ask(query) ==
    /\ pc = "idle"
    /\ req' = [op |-> "ask", city |-> None, zip |-> None, is_virtual |-> None,
               query |-> query]
    /\ resp' = ask(df, city_to_zips, zip_to_city_map, query)
    /\ locals' = ask_locals(df, city_to_zips, zip_to_city_map, query)
    /\ df' = global_df_after(df, locals'.filtered)
    /\ pc' = "responded"
    /\ UNCHANGED <<city_to_zips, zip_to_city_map, ci, zi, df0, c2z0, z2c0, served>>

\* the response is sent and the application waits for the next request
Reply ==
    /\ pc = "responded"
    /\ pc' = "idle"
    /\ req' = NoReq
    /\ resp' = NoResp
    /\ locals' = NoLocals
    /\ served' = TRUE
    /\ UNCHANGED <<city_to_zips, zip_to_city_map, ci, zi, df, df0, c2z0, z2c0>>

Next ==
    \/ BuildStep
    \/ NextCity
    \/ BuildDone
    \/ \E table \in Tables : LoadData(table)
    \/ \E city \in CityArgs, zip \in ZipArgs, is_virtual \in VirtualArgs :
           GetResources(city, zip, is_virtual)
    \/ \E query \in Queries : Ask(query)
    \/ Reply

Spec == Init /\ [][Next]_vars

NextCfg ==
    \/ BuildStep
    \/ NextCity
    \/ BuildDone
    \/ \E table \in CfgTables : LoadData(table)
    \/ \E zip \in CfgZips : GetResources(None, zip, None)
    \/ \E query \in CfgQueries : Ask(query)
    \/ Reply

SpecCfg == InitCfg /\ [][NextCfg]_vars

-----------------------------------------------------------------------------
(* Properties *)

Serving == pc \in {"idle", "responded"}
AnsweredGet == pc = "responded" /\ req.op = "get_resources"
AnsweredAsk == pc = "responded" /\ req.op = "ask"

\* the rows of the table at the positions in S, in table order
RowsAt(table, S) == ToDict(table, SelectSeq(Copy(table), LAMBDA r : r \in S))

Positions(table) == 1..Len(table)

\* some ZIP is listed under two different cities of the configuration
DuplicatedZip(c2z) ==
    \E a, b \in 1..Len(c2z) :
        /\ c2z[a][1] # c2z[b][1]
        /\ Elems(c2z[a][2]) \cap Elems(c2z[b][2]) # {}

\* C1: whenever the configuration lists one ZIP under two different cities, the
\* build of the location index is rejected: it never completes (startup never
\* gets past the build) with such a configuration.
C1_BuildRejectsDuplicatedZip == pc # "build" => ~DuplicatedZip(city_to_zips)

\* C3: once the index is built, every ZIP of every city maps back to that city,
\* every key of zip_to_city_map is listed under the city it maps to, and no ZIP
\* is listed under two cities.
C3_RoundTrip ==
    pc # "build" =>
        /\ \A k \in 1..Len(city_to_zips) :
               \A z \in Elems(city_to_zips[k][2]) :
                   /\ z \in DOMAIN zip_to_city_map
                   /\ zip_to_city_map[z] = city_to_zips[k][1]
        /\ \A z \in DOMAIN zip_to_city_map :
               z \in Elems(DictGet(city_to_zips, zip_to_city_map[z], <<>>))
        /\ ~DuplicatedZip(city_to_zips)

C3_Witness ==
    /\ pc = "idle"
    /\ Cardinality(DOMAIN zip_to_city_map) = 17
    /\ zip_to_city_map[<<"7", "3", "1", "2", "0">>] = OklahomaCity

\* C4: get_resources with a ZIP and no city returns, for a ZIP configured for
\* city c, exactly the union of get_resources(city=c) and the rows whose zip
\* field is in city_to_zips[c]; for a ZIP that is not in the index, exactly the
\* rows whose zip field equals the given ZIP.
C4_ZipQuery ==
    (AnsweredGet /\ ~Truthy(req.city) /\ Truthy(req.zip) /\ req.is_virtual = None) =>
        /\ \A k \in 1..Len(city_to_zips) :
               req.zip \in Elems(city_to_zips[k][2]) =>
                   LET c == city_to_zips[k][1]
                       byCity == get_resources_frame(df, city_to_zips, zip_to_city_map,
                                                     c, None, None)
                   IN  resp.resources =
                           RowsAt(df, Elems(byCity) \cup
                                      {r \in Positions(df) :
                                           df[r].zip \in Elems(city_to_zips[k][2])})
        /\ (\A k \in 1..Len(city_to_zips) : req.zip \notin Elems(city_to_zips[k][2])) =>
               resp.resources = RowsAt(df, {r \in Positions(df) : df[r].zip = req.zip})

C4_Witness ==
    /\ AnsweredGet
    /\ req.city = None
    /\ req.zip = <<"7", "4", "1", "3", "6">>
    /\ req.is_virtual = None
    /\ \E r \in Positions(df) : df[r].zip = <<"7", "4", "1", "0", "4">> /\ Lower(df[r].city) # Tulsa
    /\ \E r \in Positions(df) : df[r].zip = <<>> /\ Lower(df[r].city) = Tulsa
    /\ Len(resp.resources) = Len(df)

\* C5: when a city is given, get_resources returns the rows whose city field
\* equals it case-insensitively (narrowed by is_virtual when that is given),
\* whatever the zip argument and whatever the letter case of the city argument.
C5_CityPrecedence ==
    (AnsweredGet /\ Truthy(req.city)) =>
        /\ req.is_virtual = None =>
               resp.resources =
                   RowsAt(df, {r \in Positions(df) : Lower(df[r].city) = Lower(req.city)})
        /\ \A zip \in ZipArgs :
               resp.resources = get_resources(df, city_to_zips, zip_to_city_map,
                                              Lower(req.city), zip, req.is_virtual)

C5_Witness ==
    /\ AnsweredGet
    /\ req.city = <<"T", "U", "L", "S", "A">>
    /\ req.zip = <<"7", "3", "0", "6", "9">>
    /\ \E r \in Positions(df) : df[r].zip = <<"7", "3", "0", "6", "9">>
    /\ \E r \in Positions(df) : df[r].city = <<"T", "u", "l", "s", "a">>
    /\ resp.resources # <<>>

NonBlank(text) == \E k \in 1..Len(text) : text[k] \notin Whitespace

\* C6: an ask with a non-blank query whose location and topic filters leave no
\* row returns the first min(10, |table|) rows of the whole table in table
\* order; an ask with a non-blank query returns at most 10 rows, and returns
\* none only when the table is empty.
C6_NeverEmptyFallback ==
    (AnsweredAsk /\ NonBlank(req.query)) =>
        /\ locals.topical = <<>> =>
               resp.resources =
                   SubSeq(df, 1, IF Len(df) < ResultLimit THEN Len(df) ELSE ResultLimit)
        /\ Len(resp.resources) <= ResultLimit
        /\ resp.resources = <<>> => df = <<>>

C6_Witness ==
    /\ AnsweredAsk
    /\ NonBlank(req.query)
    /\ locals.topical = <<>>
    /\ Len(df) > ResultLimit
    /\ Len(resp.resources) = ResultLimit

\* what the handler named by a request returns on a given table and index
Respond(table, c2z, z2c, r) ==
    IF r.op = "ask"
    THEN ask(table, c2z, z2c, r.query)
    ELSE [response |-> None,
          resources |-> get_resources(table, c2z, z2c, r.city, r.zip, r.is_virtual)]

C8_BlankQuery ==
    (AnsweredAsk /\ ~NonBlank(req.query)) =>
        /\ resp = [response |-> EnterAQuestion, resources |-> <<>>]
        /\ ~locals.ran
        /\ locals.located = <<>> /\ locals.topical = <<>> /\ locals.filtered = <<>>

C8_Witness ==
    /\ AnsweredAsk
    /\ req.query = <<" ">>
    /\ df # <<>>
    /\ resp.resources = <<>>

Min(S) == CHOOSE m \in S : \A n \in S : m <= n

\* C9: when the lowercased query has a word-bounded 5-digit token, the location
\* is decided by the leftmost one alone: (its city, the token) when it is in the
\* index, (None, the token) otherwise; with no such token the location is
\* (c, None) for the first key c of city_to_zips contained in the query, and
\* (None, None) when there is none.
C9_ExtractorPrecedence ==
    (AnsweredAsk /\ locals.ran) =>
        LET q == Lower(locals.query)
            tokens == {k \in 1..Len(q) : ZipMatchAt(q, k)}
            named == {k \in 1..Len(city_to_zips) : Contains(q, city_to_zips[k][1])}
        IN  IF tokens # {}
            THEN LET z == SubSeq(q, Min(tokens), Min(tokens) + 4)
                 IN  /\ locals.z = z
                     /\ locals.city =
                            IF z \in DOMAIN zip_to_city_map THEN zip_to_city_map[z] ELSE None
            ELSE IF named # {}
            THEN locals.city = city_to_zips[Min(named)][1] /\ locals.z = None
            ELSE locals.city = None /\ locals.z = None

C9_Witness ==
    /\ AnsweredAsk
    /\ req.query = <<"n", "o", "r", "m", "a", "n", " ", "7", "4", "1", "3", "6">>
    /\ locals.city = Tulsa
    /\ locals.z = <<"7", "4", "1", "3", "6">>

TopicWords == <<FOOD_WORDS, HOUSING_WORDS, UTIL_WORDS, MENTAL_HEALTH_WORDS>>
TopicDisplay == <<<<"f", "o", "o", "d", " ">>, <<"h", "o", "u", "s", "i", "n", "g", " ">>, <<"u", "t", "i", "l", "i", "t", "y", " ">>, <<"m", "e", "n", "t", "a", "l", " ", "h", "e", "a", "l", "t", "h", " ">>>>
TopicMask(t, row) ==
    CASE t = 1 -> FoodMask(row)
      [] t = 2 -> HousingMask(row)
      [] t = 3 -> UtilMask(row)
      [] t = 4 -> MentalMask(row)
      [] OTHER -> TRUE

\* C10: in an ask that ran, the topic rule that filtered the rows and the topic
\* word of the response text belong to the same category, the first of food,
\* housing, utilities, mental_health with a keyword contained in the lowercased
\* query; when no keyword occurs the rows are not filtered by topic and the text
\* is "Here are some resources near {loc_text}:".
C10_TopicConsistent ==
    (AnsweredAsk /\ locals.ran) =>
        LET q == Lower(locals.query)
            hits == {t \in 1..4 : \E k \in 1..Len(TopicWords[t]) :
                                      Contains(q, TopicWords[t][k])}
            t == IF hits = {} THEN 0 ELSE Min(hits)
            word == IF t = 0 THEN <<>> ELSE TopicDisplay[t]
        IN  /\ locals.topical = SelectSeq(locals.located, LAMBDA r : TopicMask(t, df[r]))
            /\ resp.response =
                   <<"H", "e", "r", "e", " ", "a", "r", "e", " ", "s", "o", "m", "e", " ">> \o word \o <<"r", "e", "s", "o", "u", "r", "c", "e", "s", " ", "n", "e", "a", "r", " ">>
                       \o loc_text(locals.city, locals.z) \o <<":">>

C10_Witness ==
    /\ AnsweredAsk
    /\ req.query = <<"R", "e", "n", "t", " ", "f", "o", "o", "d">>
    /\ resp.response = <<"H", "e", "r", "e", " ", "a", "r", "e", " ", "s", "o", "m", "e", " ", "f", "o", "o", "d", " ", "r", "e", "s", "o", "u", "r", "c", "e", "s", " ", "n", "e", "a", "r", " ", "y", "o", "u", "r", " ", "a", "r", "e", "a", ":">>
    /\ \E k \in 1..Len(locals.located) : locals.located[k] \notin Elems(locals.topical)
    /\ locals.topical # <<>>

=============================================================================
